---- MODULE Spec2Model ----
(***************************************************************************)
(* Dynamic Window Approach planners of PathPlanning/DynamicWindowApproach:  *)
(* dwa_flocking.py (six agents held as the rows of one array) and           *)
(* dwa_3d.py (one agent).                                                   *)
(*                                                                          *)
(* Numbers.  The programs compute in floating point; the model computes on  *)
(* an integer grid:                                                         *)
(*   - lengths in grid units, velocities in grid units per time unit, and   *)
(*     v_resolution a whole number of them;                                 *)
(*   - angles in eighths of a turn (math.pi is HalfTurn = 4); headings and  *)
(*     yaw rates are even (multiples of a quarter turn), so math.cos and    *)
(*     math.sin are exact; math.atan2 is rounded to the nearest eighth;     *)
(*   - np.hypot in 1/DistScale grid units, rounded down;                    *)
(*   - a cost term in 1/CostScale, the gains in hundredths (0.15, 1.0, 1.0  *)
(*     are 15, 100, 100);                                                   *)
(*   - float("inf") is the number Inf, absorbing under + and *.             *)
(* A row of the flocking state is <<x, y, yaw, v, omega>>: Python's         *)
(* x[n, 0..4] is x[n+1][1..5] here.  A Python exception is the field err of *)
(* what an operator returns, and pc = "error" in a run.                     *)
(***************************************************************************)
EXTENDS Integers, Sequences, FiniteSets, TLC

VARIABLES
    prog,    \* which program runs: "dwa_flocking" or "dwa_3d"
    cfg,     \* the Config object
    x,       \* the robot state: rows of agents (flocking), one vector (3d)
    goal,    \* the goal point <<gx, gy>> given to the call; in main, goal1
    ob,      \* config.ob: the sequence of obstacle points <<ox, oy>>
    dw,      \* the dynamic window(s) dwa_control computed
    ret,     \* what the last call returned (or the exception it raised)
    pc,      \* position of the caller
    goalNo,  \* main: which of goal1, goal2, goal3 is active (4: "Done")
    steps,   \* main: control steps taken so far
    traj,    \* calc_obstacle_cost's trajectory argument; in main, trajectory;
             \* what predict_trajectory returned
    cmd      \* predict_trajectory's arguments n, v, y: <<n, v, y>>

vars == <<prog, cfg, x, goal, ob, dw, ret, pc, goalNo, steps, traj, cmd>>

----------------------------------------------------------------------------
(* Bounds of the model *)

\* rows of the flocking state array (the source fixes six; see Agents)
NumAgents == 2
\* the samples of a trajectory given to calc_obstacle_cost lie on the grid
\* 0..MaxCoord by 0..MaxCoord
MaxCoord == 3
\* control steps of a run of main that the model follows
MaxSteps == 12
\* np.hypot keeps 1/DistScale of a grid unit
DistScale == 10
\* a cost term keeps 1/CostScale of a unit
CostScale == 100
\* predict_time of the Configs given to predict_trajectory ranges over
\* 0..MaxPredictTime
MaxPredictTime == 3

(* Program constants *)

\* float("inf")
Inf == 1000000000
\* math.pi, in eighths of a turn
HalfTurn == 4

----------------------------------------------------------------------------
(* Arithmetic of Python, math and numpy *)

Abs(a) == IF a < 0 THEN -a ELSE a
Max(a, b) == IF a >= b THEN a ELSE b
Min(a, b) == IF a <= b THEN a ELSE b

\* float +, * with inf (no -inf, no nan: every finite operand here is >= 0
\* or added to a finite one, and every gain is > 0)
Add(a, b) == IF a = Inf \/ b = Inf THEN Inf ELSE a + b
Mul(g, a) == IF a = Inf THEN Inf ELSE g * a

RECURSIVE IsqrtFrom(_, _)
IsqrtFrom(n, r) == IF (r + 1) * (r + 1) > n THEN r ELSE IsqrtFrom(n, r + 1)

\* np.hypot(dx, dy), in 1/DistScale grid units
hypot(dx, dy) == IsqrtFrom((dx * dx + dy * dy) * DistScale * DistScale, 0)

\* math.cos, math.sin of a heading (an even number of eighths of a turn)
Cos(a) == CASE a % 8 = 0 -> 1
            [] a % 8 = 4 -> -1
            [] a % 8 \in {2, 6} -> 0
Sin(a) == CASE a % 8 = 2 -> 1
            [] a % 8 = 6 -> -1
            [] a % 8 \in {0, 4} -> 0

\* math.atan2(dy, dx) in eighths of a turn, in -3..4, rounded to the nearest
\* eighth (tan(pi/8) taken as 5/12); atan2(0, 0) = 0
atan2(dy, dx) ==
    LET ax == Abs(dx)
        ay == Abs(dy)
        \* the angle of (ax, ay) in the first quadrant: 0, 1 or 2
        q == IF 12 * ay <= 5 * ax THEN 0
             ELSE IF 12 * ax < 5 * ay THEN 2
             ELSE 1
    IN  IF dx = 0 /\ dy = 0 THEN 0
        ELSE IF dx >= 0 /\ dy >= 0 THEN q
        ELSE IF dx < 0 /\ dy >= 0 THEN HalfTurn - q
        ELSE IF dx < 0 /\ dy < 0 THEN IF q = 0 THEN HalfTurn ELSE q - HalfTurn
        ELSE -q

\* abs(math.atan2(math.sin(a), math.cos(a))): |a| wrapped into 0..HalfTurn
AbsWrap(a) ==
    LET m == a % (2 * HalfTurn)
    IN  IF m > HalfTurn THEN 2 * HalfTurn - m ELSE m

\* arange with the end point taken in (as np.linspace does)
arange_closed(lo, hi, step) ==
    LET len == IF hi < lo THEN 0 ELSE ((hi - lo) \div step) + 1
    IN  [i \in 1..len |-> lo + (i - 1) * step]

\* np.arange(lo, hi, step), step > 0: lo, lo+step, ... below hi
arange(lo, hi, step) ==
    LET len == IF hi <= lo THEN 0 ELSE (hi - lo + step - 1) \div step
    IN  [i \in 1..len |-> lo + (i - 1) * step]

RECURSIVE Flatten(_)
\* the rows of a sequence of blocks, in order (np.vstack)
Flatten(blocks) ==
    IF blocks = <<>> THEN <<>> ELSE Head(blocks) \o Flatten(Tail(blocks))

----------------------------------------------------------------------------
(* dwa_flocking.py *)

\* range(6): the agents are the rows of the state array
Agents(xs) == 1..Len(xs)

\* motion(x, n, u, dt): row n advanced by one tick in place, u = <<v, omega>>
motion(xs, n, u, dt) ==
    LET yaw == xs[n][3] + u[2] * dt
    IN  [xs EXCEPT ![n] = << xs[n][1] + u[1] * Cos(yaw) * dt,
                             xs[n][2] + u[1] * Sin(yaw) * dt,
                             yaw,
                             u[1],
                             u[2] >>]

\* calc_dynamic_window with the lower bounds taken from the upper entries of
\* Vd (an index slip)
calc_dynamic_window_slip(xs, c) ==
    LET Vd == [i \in 1..Len(xs) |->
                  << xs[i][4] - c.max_accel * c.dt,
                     xs[i][4] + c.max_accel * c.dt,
                     xs[i][5] - c.max_delta_yaw_rate * c.dt,
                     xs[i][5] + c.max_delta_yaw_rate * c.dt >>]
    IN  [i \in 1..Len(xs) |->
            << Max(c.min_speed, Vd[i][2]), Min(c.max_speed, Vd[i][2]),
               Max(-c.max_yaw_rate, Vd[i][4]), Min(c.max_yaw_rate, Vd[i][4]) >>]

\* calc_dynamic_window without the rectangle of the robot specification: the
\* window is Vd alone
calc_dynamic_window_unclipped(xs, c) ==
    [i \in 1..Len(xs) |->
        << xs[i][4] - c.max_accel * c.dt,
           xs[i][4] + c.max_accel * c.dt,
           xs[i][5] - c.max_delta_yaw_rate * c.dt,
           xs[i][5] + c.max_delta_yaw_rate * c.dt >>]

\* calc_dynamic_window(x, config): per row <<v_min, v_max, yaw_min, yaw_max>>
calc_dynamic_window(xs, c) ==
    LET Vs == [i \in Agents(xs) |->
                  << c.min_speed, c.max_speed,
                     -c.max_yaw_rate, c.max_yaw_rate >>]
        Vd == [i \in Agents(xs) |->
                  << xs[i][4] - c.max_accel * c.dt,
                     xs[i][4] + c.max_accel * c.dt,
                     xs[i][5] - c.max_delta_yaw_rate * c.dt,
                     xs[i][5] + c.max_delta_yaw_rate * c.dt >>]
    IN  [i \in Agents(xs) |->
            << Max(Vs[i][1], Vd[i][1]), Min(Vs[i][2], Vd[i][2]),
               Max(Vs[i][3], Vd[i][3]), Min(Vs[i][4], Vd[i][4]) >>]

RECURSIVE PredictLoop(_, _, _, _, _, _, _)
\* the while loop of predict_trajectory: one block of rows per pass
PredictLoop(xs, trajectory, time, n, v, y, c) ==
    IF time <= c.predict_time
    THEN LET nx == motion(xs, n, <<v, y>>, c.dt)
         IN  PredictLoop(nx, Append(trajectory, nx), time + c.dt, n, v, y, c)
    ELSE trajectory

\* predict_trajectory(x_init, n, v, y, config): the blocks stacked; every
\* block holds the rows of all agents
predict_trajectory(x_init, n, v, y, c) ==
    PredictLoop(x_init, <<x_init>>, 0, n, v, y, c)

\* 1.0 / min_r, in 1/CostScale (min_r is a numpy float: 1.0 / 0.0 is inf)
Reciprocal(min_r) ==
    IF min_r = 0 THEN Inf ELSE (CostScale * DistScale) \div min_r

\* np.min(r) over the distance matrix (obstacles by trajectory rows)
MinDist(rows, obs) ==
    LET r == {hypot(rows[j][1] - obs[i][1], rows[j][2] - obs[i][2]) :
                 i \in DOMAIN obs, j \in DOMAIN rows}
    IN  CHOOSE m \in r : \A d \in r : m <= d

\* calc_obstacle_cost with the collision test strict (r < robot_radius)
calc_obstacle_cost_strict(rows, obs, c) ==
    IF \E i \in DOMAIN obs, j \in DOMAIN rows :
           hypot(rows[j][1] - obs[i][1], rows[j][2] - obs[i][2])
               < c.robot_radius * DistScale
    THEN [err |-> "none", val |-> Inf]
    ELSE IF obs = <<>> \/ rows = <<>>
    THEN [err |-> "ValueError", val |-> 0]
    ELSE [err |-> "none", val |-> Reciprocal(MinDist(rows, obs))]

\* calc_obstacle_cost(trajectory, ob, config) on the stacked rows; np.min of
\* an empty matrix raises ValueError
calc_obstacle_cost(rows, obs, c) ==
    IF \E i \in DOMAIN obs, j \in DOMAIN rows :
           hypot(rows[j][1] - obs[i][1], rows[j][2] - obs[i][2])
               <= c.robot_radius * DistScale
    THEN [err |-> "none", val |-> Inf]
    ELSE IF obs = <<>> \/ rows = <<>>
    THEN [err |-> "ValueError", val |-> 0]
    ELSE [err |-> "none", val |-> Reciprocal(MinDist(rows, obs))]

\* calc_to_goal_cost(trajectory, goal), read off the last stacked row, in
\* 1/CostScale of an eighth of a turn
calc_to_goal_cost(rows, g) ==
    LET last == rows[Len(rows)]
        dx == g[1] - last[1]
        dy == g[2] - last[2]
        error_angle == atan2(dy, dx)
        cost_angle == error_angle - last[3]
    IN  CostScale * AbsWrap(cost_angle)

\* the (v, y) pairs the loops of calc_control_and_trajectory visit for agent
\* n, in the order visited: v outer, y inner
CandidatesOf(n, dwn, c) ==
    LET vs == arange(dwn[1], dwn[2], c.v_resolution)
        ys == arange(dwn[3], dwn[4], c.yaw_rate_resolution)
    IN  [k \in 1..(Len(vs) * Len(ys)) |->
            << n, vs[((k - 1) \div Len(ys)) + 1], ys[((k - 1) % Len(ys)) + 1] >>]

\* all passes of the three nested loops, agent outermost
Candidates(dws, c) ==
    Flatten([n \in 1..Len(dws) |-> CandidatesOf(n, dws[n], c)])

\* speed_cost = config.speed_cost_gain * (config.max_speed - trajectory[-1, 3])
\* in 1/CostScale: the fourth number of the last stacked row
speed_cost(rows, c) ==
    c.speed_cost_gain * (CostScale * (c.max_speed - rows[Len(rows)][4]))

\* final_cost of one candidate: [err, val]
FinalCost(xs, n, v, y, c, g, obs) ==
    LET rows == Flatten(predict_trajectory(xs, n, v, y, c))
        to_goal_cost == c.to_goal_cost_gain * calc_to_goal_cost(rows, g)
        oc == calc_obstacle_cost(rows, obs, c)
        ob_cost == Mul(c.obstacle_cost_gain, oc.val)
    IN  [err |-> oc.err,
         val |-> Add(to_goal_cost + speed_cost(rows, c), ob_cost)]

\* the locals of calc_control_and_trajectory before its loops.  scored and
\* sel are observers, not program state: the number of candidates of each
\* agent that were scored, and the last <<v, y>> of each agent that the
\* comparison accepted (<<>> when none was).
SearchStart(xs) ==
    [err |-> "none",
     min_cost |-> Inf,
     best_u |-> [i \in Agents(xs) |-> <<0, 0>>],
     best_trajectory |-> <<xs>>,
     scored |-> [i \in Agents(xs) |-> 0],
     sel |-> [i \in Agents(xs) |-> <<>>]]

\* the if-statement that updates the best: min_cost >= final_cost
Accepts(min_cost, final_cost) == min_cost >= final_cost

\* AntiStall with the sign of the forced yaw rate lost
AntiStall_unsigned(v, y, cur_v, c) ==
    IF Abs(v) < c.robot_stuck_flag_cons /\ Abs(cur_v) < c.robot_stuck_flag_cons
    THEN <<v, c.max_delta_yaw_rate>>
    ELSE <<v, y>>

\* best_u as the accepting branch leaves it: <<v, y>>, with the yaw rate
\* replaced by -max_delta_yaw_rate when v and the current velocity cur_v are
\* both below robot_stuck_flag_cons in absolute value
AntiStall(v, y, cur_v, c) ==
    IF Abs(v) < c.robot_stuck_flag_cons /\ Abs(cur_v) < c.robot_stuck_flag_cons
    THEN <<v, -c.max_delta_yaw_rate>>
    ELSE <<v, y>>

\* one pass of the innermost loop body for candidate cand = <<n, v, y>>
SearchStep(st, cand, xs, c, g, obs) ==
    LET n == cand[1]
        v == cand[2]
        y == cand[3]
        fc == FinalCost(xs, n, v, y, c, g, obs)
    IN  IF fc.err # "none"
        THEN [st EXCEPT !.err = fc.err]
        ELSE IF Accepts(st.min_cost, fc.val)
        THEN [st EXCEPT !.min_cost = fc.val,
                        !.best_u[n] = AntiStall(v, y, xs[n][4], c),
                        !.best_trajectory = predict_trajectory(xs, n, v, y, c),
                        !.scored[n] = @ + 1,
                        !.sel[n] = <<v, y>>]
        ELSE [st EXCEPT !.scored[n] = @ + 1]

RECURSIVE SearchLoop(_, _, _, _, _, _, _)
\* the loops from pass k on; an exception ends them
SearchLoop(st, cands, k, xs, c, g, obs) ==
    IF k > Len(cands) \/ st.err # "none"
    THEN st
    ELSE SearchLoop(SearchStep(st, cands[k], xs, c, g, obs),
                    cands, k + 1, xs, c, g, obs)

\* calc_control_and_trajectory(x, dw, config, goal, ob)
calc_control_and_trajectory(xs, dws, c, g, obs) ==
    SearchLoop(SearchStart(xs), Candidates(dws, c), 1, xs, c, g, obs)

\* dwa_control(x, config, goal, ob)
dwa_control(xs, c, g, obs) ==
    calc_control_and_trajectory(xs, calc_dynamic_window(xs, c), c, g, obs)

----------------------------------------------------------------------------
(* dwa_3d.py: the state is one vector, x[k] of Python is x[k+1] here.  main  *)
(* builds it of 5 numbers <<x, y, yaw, v, omega>>; motion and                *)
(* calc_dynamic_window index it as 7: <<x, y, z, yaw, v, omega, vz>>.        *)

\* motion(x, u, dt): writes x[5] and x[6] and reads u[2], so it raises
\* IndexError on a state of fewer than 7 numbers or an input of fewer than 3
\* (the caller lets the exception end the program, and the half-updated
\* vector is not seen again)
motion3d(xv, u, dt) ==
    IF Len(xv) < 7 \/ Len(u) < 3
    THEN [err |-> "IndexError", x |-> xv]
    ELSE LET angle == xv[4] + u[2] * dt
         IN  [err |-> "none",
              x |-> << xv[1] + u[1] * Cos(angle) * dt,
                       xv[2] + u[1] * Sin(angle) * dt,
                       1,
                       angle,
                       u[1],
                       u[2],
                       u[3] >>]

\* calc_dynamic_window(x, config): <<v_min, v_max, yaw_min, yaw_max>>; it
\* reads x[4] and x[5], so it raises IndexError on fewer than 6 numbers
calc_dynamic_window3d(xv, c) ==
    IF Len(xv) < 6
    THEN [err |-> "IndexError", dw |-> <<>>]
    ELSE LET Vs == << c.min_speed, c.max_speed,
                      -c.max_yaw_rate, c.max_yaw_rate >>
             Vd == << xv[5] - c.max_accel * c.dt,
                      xv[5] + c.max_accel * c.dt,
                      xv[6] - c.max_delta_yaw_rate * c.dt,
                      xv[6] + c.max_delta_yaw_rate * c.dt >>
         IN  [err |-> "none",
              dw |-> << Max(Vs[1], Vd[1]), Min(Vs[2], Vd[2]),
                        Max(Vs[3], Vd[3]), Min(Vs[4], Vd[4]) >>]

RECURSIVE PredictLoop3d(_, _, _, _, _, _)
\* the while loop of predict_trajectory; an exception of motion ends it
PredictLoop3d(xv, trajectory, time, v, y, c) ==
    IF time <= c.predict_time
    THEN LET m == motion3d(xv, <<v, y>>, c.dt)
         IN  IF m.err # "none"
             THEN [err |-> m.err, trajectory |-> trajectory]
             ELSE PredictLoop3d(m.x, Append(trajectory, m.x),
                                time + c.dt, v, y, c)
    ELSE [err |-> "none", trajectory |-> trajectory]

\* predict_trajectory(x_init, v, y, config)
predict_trajectory3d(x_init, v, y, c) ==
    PredictLoop3d(x_init, <<x_init>>, 0, v, y, c)

\* the locals of calc_control_and_trajectory before its loops (scored, sel:
\* observers, as in SearchStart)
SearchStart3d(xv) ==
    [err |-> "none",
     min_cost |-> Inf,
     best_u |-> <<0, 0>>,
     best_trajectory |-> <<xv>>,
     scored |-> 0,
     sel |-> <<>>]

\* one pass of the inner loop body for the candidate <<v, y>>
SearchStep3d(st, cand, xv, c, g, obs) ==
    LET v == cand[1]
        y == cand[2]
        p == predict_trajectory3d(xv, v, y, c)
        rows == p.trajectory
        to_goal_cost == c.to_goal_cost_gain * calc_to_goal_cost(rows, g)
        oc == calc_obstacle_cost(rows, obs, c)
        final_cost == Add(to_goal_cost + speed_cost(rows, c),
                          Mul(c.obstacle_cost_gain, oc.val))
    IN  IF p.err # "none"
        THEN [st EXCEPT !.err = p.err]
        ELSE IF oc.err # "none"
        THEN [st EXCEPT !.err = oc.err]
        ELSE IF Accepts(st.min_cost, final_cost)
        THEN [st EXCEPT !.min_cost = final_cost,
                        !.best_u = AntiStall(v, y, xv[5], c),
                        !.best_trajectory = rows,
                        !.scored = @ + 1,
                        !.sel = <<v, y>>]
        ELSE [st EXCEPT !.scored = @ + 1]

RECURSIVE SearchLoop3d(_, _, _, _, _, _, _)
SearchLoop3d(st, cands, k, xv, c, g, obs) ==
    IF k > Len(cands) \/ st.err # "none"
    THEN st
    ELSE SearchLoop3d(SearchStep3d(st, cands[k], xv, c, g, obs),
                      cands, k + 1, xv, c, g, obs)

\* the <<v, y>> pairs of the two nested loops, v outer
Candidates3d(dwv, c) ==
    LET vs == arange(dwv[1], dwv[2], c.v_resolution)
        ys == arange(dwv[3], dwv[4], c.yaw_rate_resolution)
    IN  [k \in 1..(Len(vs) * Len(ys)) |->
            << vs[((k - 1) \div Len(ys)) + 1], ys[((k - 1) % Len(ys)) + 1] >>]

\* calc_control_and_trajectory(x, dw, config, goal, ob)
calc_control_and_trajectory3d(xv, dwv, c, g, obs) ==
    SearchLoop3d(SearchStart3d(xv), Candidates3d(dwv, c), 1, xv, c, g, obs)

----------------------------------------------------------------------------
(* Inputs *)

\* Config(), on the model's grid
Config ==
    [max_speed |-> 2,
     min_speed |-> -1,
     max_yaw_rate |-> 4,
     max_accel |-> 2,
     max_delta_yaw_rate |-> 2,
     v_resolution |-> 1,
     yaw_rate_resolution |-> 2,
     dt |-> 1,
     predict_time |-> 1,
     to_goal_cost_gain |-> 15,
     speed_cost_gain |-> 100,
     obstacle_cost_gain |-> 100,
     robot_stuck_flag_cons |-> 1,
     robot_radius |-> 1]

\* the Config objects a call is given: Config() and Config() with a limit
\* changed (no acceleration; no turning; no change of turning; forward only)
ConfigSet ==
    { Config,
      [Config EXCEPT !.max_accel = 0],
      [Config EXCEPT !.max_yaw_rate = 0],
      [Config EXCEPT !.max_delta_yaw_rate = 0],
      [Config EXCEPT !.min_speed = 1, !.max_accel = 1],
      [Config EXCEPT !.min_speed = 2, !.max_speed = 3, !.max_accel = 1] }

\* the rows an agent's state is drawn from: at rest or moving, and two that
\* turn faster than Config() allows
RowSet ==
    { <<px, 0, 0, v, 0>> : px \in {0, 1, 3}, v \in {0, 1} }
    \cup { <<0, 2, 2, 0, 4>>, <<1, 2, 0, 3, 0>> }

\* the state arrays a call is given: NumAgents rows
StateSet == [1..NumAgents -> RowSet]

\* the state vectors dwa_3d.py is given: of 5 numbers as main builds them
\* (<<x, y, yaw, v, omega>>), and of 7 as motion lays them out
VectorSet ==
    { <<px, 0, 0, v, 0>> : px \in {0, 1, 3}, v \in {0, 1} }
    \cup { <<px, 0, 1, 0, v, 0, 0>> : px \in {0, 1, 3}, v \in {0, 1} }
    \cup { <<0, 2, 1, 2, 0, 4, 0>>, <<1, 2, 1, 0, 3, 0, 0>> }

\* goal points
GoalSet == { <<3, 0>>, <<1, 3>> }

\* obstacle arrays (config.ob): none, one point, two points
ObSet == { <<>>, << <<2, 3>> >>, << <<3, 1>>, <<0, -3>> >>, << <<4, -2>> >> }

\* no call made yet
NoRet == [err |-> "none"]

----------------------------------------------------------------------------
(* One call of dwa_control, on every input *)

InitControl ==
    /\ cmd = <<>>
    /\ prog \in {"dwa_flocking", "dwa_3d"}
    /\ cfg \in ConfigSet
    /\ x \in IF prog = "dwa_flocking" THEN StateSet ELSE VectorSet
    /\ goal \in GoalSet
    /\ ob \in ObSet
    /\ dw = <<>>
    /\ ret = NoRet
    /\ pc = "start"
    /\ goalNo = 1
    /\ steps = 0
    /\ traj = <<>>

\* dwa_control, first statement: dw = calc_dynamic_window(x, config)
DynamicWindow ==
    /\ pc = "start"
    /\ prog = "dwa_flocking"
    /\ dw' = calc_dynamic_window(x, cfg)
    /\ pc' = "window"
    /\ UNCHANGED <<cmd, prog, cfg, x, goal, ob, ret, goalNo, steps, traj>>

\* dwa_control, second statement: calc_control_and_trajectory(x, dw, ...)
Search ==
    /\ pc = "window"
    /\ prog = "dwa_flocking"
    /\ ret' = calc_control_and_trajectory(x, dw, cfg, goal, ob)
    /\ pc' = IF ret'.err = "none" THEN "returned" ELSE "error"
    /\ UNCHANGED <<cmd, prog, cfg, x, goal, ob, dw, goalNo, steps, traj>>

\* dwa_3d.py, dwa_control, first statement
DynamicWindow3d ==
    /\ pc = "start"
    /\ prog = "dwa_3d"
    /\ LET w == calc_dynamic_window3d(x, cfg)
       IN  /\ dw' = w.dw
           /\ ret' = [err |-> w.err]
           /\ pc' = IF w.err = "none" THEN "window" ELSE "error"
    /\ UNCHANGED <<cmd, prog, cfg, x, goal, ob, goalNo, steps, traj>>

\* dwa_3d.py, dwa_control, second statement
Search3d ==
    /\ pc = "window"
    /\ prog = "dwa_3d"
    /\ ret' = calc_control_and_trajectory3d(x, dw, cfg, goal, ob)
    /\ pc' = IF ret'.err = "none" THEN "returned" ELSE "error"
    /\ UNCHANGED <<cmd, prog, cfg, x, goal, ob, dw, goalNo, steps, traj>>

NextControl == DynamicWindow \/ Search \/ DynamicWindow3d \/ Search3d

SpecControl == InitControl /\ [][NextControl]_vars

----------------------------------------------------------------------------
(* Claims about one call of dwa_control (SpecControl) *)

\* the call of calc_control_and_trajectory has ended
SearchEnded == pc \in {"returned", "error"} /\ dw # <<>>

\* a window with no candidate: empty or degenerate in a dimension
EmptyWindow(w) == w[1] >= w[2] \/ w[3] >= w[4]

\* the final cost of the k-th candidate of the flocking scan
CostOf(cands, k) ==
    FinalCost(x, cands[k][1], cands[k][2], cands[k][3], cfg, goal, ob)

\* every candidate of the flocking scan is a predicted collision
AllCollide ==
    LET cands == Candidates(dw, cfg)
    IN  /\ cands # <<>>
        /\ ob # <<>>
        /\ \A k \in DOMAIN cands : CostOf(cands, k).val = Inf

\* C1: when the window is non-empty and every candidate is a predicted
\* collision, the search returns the default command <<0, 0>> and the
\* one-sample trajectory of the current state.
C1_AllCollisionReturnsDefault ==
    (prog = "dwa_flocking" /\ SearchEnded /\ AllCollide)
        => /\ pc = "returned"
           /\ \A n \in Agents(x) : ret.best_u[n] = <<0, 0>>
           /\ ret.best_trajectory = <<x>>

\* C2: a window that is empty or degenerate in either dimension has no
\* candidate scored and leaves the command <<0, 0>>; when no window has a
\* candidate the call returns (raises nothing) the one-sample trajectory of
\* the current state.
C2_EmptyWindowReturnsDefault ==
    SearchEnded =>
        IF prog = "dwa_flocking"
        THEN /\ pc = "returned" =>
                   \A n \in Agents(x) :
                       EmptyWindow(dw[n]) =>
                           ret.scored[n] = 0 /\ ret.best_u[n] = <<0, 0>>
             /\ (\A n \in Agents(x) : EmptyWindow(dw[n])) =>
                   /\ pc = "returned"
                   /\ ret.min_cost = Inf
                   /\ ret.best_trajectory = <<x>>
        ELSE EmptyWindow(dw) =>
                 /\ pc = "returned"
                 /\ ret.scored = 0
                 /\ ret.best_u = <<0, 0>>
                 /\ ret.min_cost = Inf
                 /\ ret.best_trajectory = <<x>>

\* C2's case: the flocking search returned with an empty window for one
\* agent and a scored candidate for another
C2_Witness ==
    /\ prog = "dwa_flocking"
    /\ pc = "returned"
    /\ dw # <<>>
    /\ \E n \in Agents(x) : EmptyWindow(dw[n]) /\ dw[n][1] > dw[n][2]
    /\ \E n \in Agents(x) : ret.scored[n] > 0

\* the last candidate, in scan order, of least cost among those of agent n
LastMinimum(n) ==
    LET cs == CandidatesOf(n, dw[n], cfg)
        k == CHOOSE i \in DOMAIN cs :
                 /\ \A j \in DOMAIN cs : CostOf(cs, j).val >= CostOf(cs, i).val
                 /\ \A j \in DOMAIN cs :
                        j > i => CostOf(cs, j).val > CostOf(cs, i).val
    IN  << cs[k][2], cs[k][3] >>

\* C3: the search scans the whole window of an agent and selects its
\* candidate of least total cost, the last evaluated among equals.
C3_SelectsLastMinimum ==
    (prog = "dwa_flocking" /\ pc = "returned" /\ dw # <<>>) =>
        \A n \in Agents(x) :
            ~EmptyWindow(dw[n]) =>
                /\ ret.scored[n] = Len(CandidatesOf(n, dw[n], cfg))
                /\ ret.sel[n] = LastMinimum(n)

\* C4: whenever the current linear velocity and the returned linear velocity
\* are both below robot_stuck_flag_cons in absolute value, the returned yaw
\* rate is -max_delta_yaw_rate.
C4_AntiStall ==
    (pc = "returned" /\ dw # <<>>) =>
        IF prog = "dwa_flocking"
        THEN \A n \in Agents(x) :
                 (Abs(x[n][4]) < cfg.robot_stuck_flag_cons
                  /\ Abs(ret.best_u[n][1]) < cfg.robot_stuck_flag_cons)
                     => ret.best_u[n][2] = -cfg.max_delta_yaw_rate
        ELSE (Abs(x[5]) < cfg.robot_stuck_flag_cons
              /\ Abs(ret.best_u[1]) < cfg.robot_stuck_flag_cons)
                 => ret.best_u[2] = -cfg.max_delta_yaw_rate

\* C4, amended: whenever the search accepted a candidate for the agent, and
\* the current linear velocity and the returned linear velocity are both
\* below robot_stuck_flag_cons in absolute value, the returned yaw rate is
\* -max_delta_yaw_rate, whatever yaw rate the accepted candidate had.
C4_AntiStallWhenAccepted ==
    (pc = "returned" /\ dw # <<>>) =>
        IF prog = "dwa_flocking"
        THEN \A n \in Agents(x) :
                 (ret.sel[n] # <<>>
                  /\ Abs(x[n][4]) < cfg.robot_stuck_flag_cons
                  /\ Abs(ret.best_u[n][1]) < cfg.robot_stuck_flag_cons)
                     => ret.best_u[n][2] = -cfg.max_delta_yaw_rate
        ELSE (ret.sel # <<>>
              /\ Abs(x[5]) < cfg.robot_stuck_flag_cons
              /\ Abs(ret.best_u[1]) < cfg.robot_stuck_flag_cons)
                 => ret.best_u[2] = -cfg.max_delta_yaw_rate

\* C4's case: an agent at rest for which the search accepted a candidate of
\* zero velocity whose own yaw rate is not -max_delta_yaw_rate
C4_Witness ==
    /\ prog = "dwa_flocking"
    /\ pc = "returned"
    /\ dw # <<>>
    /\ \E n \in Agents(x) :
           /\ ret.sel[n] # <<>>
           /\ x[n][4] = 0
           /\ ret.sel[n][1] = 0
           /\ ret.sel[n][2] # -cfg.max_delta_yaw_rate
           /\ ret.best_u[n] = <<0, -cfg.max_delta_yaw_rate>>

\* the Config of C5: consistent bounds, limits and dt not negative
ConsistentConfig ==
    /\ cfg.min_speed <= cfg.max_speed
    /\ cfg.max_yaw_rate >= 0
    /\ cfg.max_accel >= 0
    /\ cfg.max_delta_yaw_rate >= 0
    /\ cfg.dt >= 0

\* a window with its bounds in order
Ordered(w) == w[1] <= w[2] /\ w[3] <= w[4]

\* the windows calc_dynamic_window returned, one per agent
Windows == IF prog = "dwa_flocking" THEN dw ELSE <<dw>>

\* the current <<v, omega>> of each agent
Velocities ==
    IF prog = "dwa_flocking"
    THEN [n \in Agents(x) |-> << x[n][4], x[n][5] >>]
    ELSE << << x[5], x[6] >> >>

\* C5, as stated: for every state and every consistent Config the window
\* has v_min <= v_max and yaw_min <= yaw_max.
C5_WindowOrdered ==
    (pc = "window" /\ ConsistentConfig) =>
        \A n \in DOMAIN Windows : Ordered(Windows[n])

\* the current velocities lie within Config's static bounds
WithinStatic(u) ==
    /\ cfg.min_speed <= u[1] /\ u[1] <= cfg.max_speed
    /\ -cfg.max_yaw_rate <= u[2] /\ u[2] <= cfg.max_yaw_rate

\* C5, amended: for every consistent Config and every state whose current
\* linear velocity and yaw rate lie within Config's static bounds, the
\* window has v_min <= v_max and yaw_min <= yaw_max.
C5_WindowOrderedWithinStatic ==
    (pc = "window" /\ ConsistentConfig) =>
        \A n \in DOMAIN Windows :
            WithinStatic(Velocities[n]) => Ordered(Windows[n])

\* C5's case: a window computed for an agent moving at exactly min_speed
\* under a Config that clips the reachable velocities from below
C5_Witness ==
    /\ pc = "window"
    /\ ConsistentConfig
    /\ \E n \in DOMAIN Windows :
           /\ WithinStatic(Velocities[n])
           /\ Velocities[n][1] = cfg.min_speed
           /\ cfg.max_accel > 0
           /\ Windows[n][1] < Windows[n][2]

\* C6: the command of agent n is the one the search returns when run on
\* agent n's row alone (fresh minimum cost, own final pose and velocity, own
\* samples against the obstacles).
C6_AgentsIndependent ==
    (prog = "dwa_flocking" /\ pc = "returned" /\ dw # <<>>) =>
        \A n \in Agents(x) :
            ret.best_u[n] =
                calc_control_and_trajectory(<<x[n]>>, <<dw[n]>>,
                                            cfg, goal, ob).best_u[1]

\* C11: for every candidate <<v, y>> the search scored, the speed-cost term
\* is speed_cost_gain * (max_speed - v): the number it reads in the last
\* sample of the candidate's trajectory is the candidate's own v, which the
\* motion model wrote there for the agent being simulated.
C11_SpeedCostReadsCandidateVelocity ==
    SearchEnded =>
        IF prog = "dwa_flocking"
        THEN \A n \in Agents(x) : \A k \in 1..ret.scored[n] :
                 LET cand == CandidatesOf(n, dw[n], cfg)[k]
                     rows == Flatten(predict_trajectory(x, n, cand[2],
                                                        cand[3], cfg))
                 IN  speed_cost(rows, cfg) =
                         cfg.speed_cost_gain
                             * (CostScale * (cfg.max_speed - cand[2]))
        ELSE \A k \in 1..ret.scored :
                 LET cand == Candidates3d(dw, cfg)[k]
                     rows == predict_trajectory3d(x, cand[1], cand[2],
                                                  cfg).trajectory
                 IN  speed_cost(rows, cfg) =
                         cfg.speed_cost_gain
                             * (CostScale * (cfg.max_speed - cand[1]))

\* the command u lies in the window w = <<v_min, v_max, yaw_min, yaw_max>>
InWindow(u, w) == w[1] <= u[1] /\ u[1] <= w[2] /\ w[3] <= u[2] /\ u[2] <= w[4]

\* the command u changes the linear velocity cur_v by at most max_accel * dt
\* and the yaw rate cur_y by at most max_delta_yaw_rate * dt
WithinReach(u, cur_v, cur_y) ==
    /\ Abs(u[1] - cur_v) <= cfg.max_accel * cfg.dt
    /\ Abs(u[2] - cur_y) <= cfg.max_delta_yaw_rate * cfg.dt

----------------------------------------------------------------------------
(* One call of calc_obstacle_cost, on every input (the function is the same *)
(* text in both programs)                                                   *)

\* the trajectory samples: rows at the points of the grid
SampleSet == { <<px, py, 0, 0, 0>> : px \in 0..MaxCoord, py \in 0..MaxCoord }

\* trajectories of one and of two samples
TrajSet == { <<p>> : p \in SampleSet } \cup { <<p, q>> : p, q \in SampleSet }

\* obstacle points, and the obstacle arrays of none, one and two of them
ObPoints == { <<1, 1>>, <<3, 0>>, <<5, 5>> }
ObArrays ==
    { <<>> } \cup { <<p>> : p \in ObPoints }
             \cup { <<p, q>> : p, q \in ObPoints }

InitObstacle ==
    /\ cmd = <<>>
    /\ prog = "dwa_flocking"
    /\ cfg \in { [Config EXCEPT !.robot_radius = r] : r \in {0, 1, 2} }
    /\ traj \in TrajSet
    /\ ob \in ObArrays
    /\ x = <<>>
    /\ goal = <<0, 0>>
    /\ dw = <<>>
    /\ ret = NoRet
    /\ pc = "start"
    /\ goalNo = 1
    /\ steps = 0

\* the call calc_obstacle_cost(trajectory, ob, config)
ObstacleCost ==
    /\ pc = "start"
    /\ traj # <<>>
    /\ ret' = calc_obstacle_cost(traj, ob, cfg)
    /\ pc' = IF ret'.err = "none" THEN "returned" ELSE "error"
    /\ UNCHANGED <<cmd, prog, cfg, x, goal, ob, dw, goalNo, steps, traj>>

NextObstacle == ObstacleCost

SpecObstacle == InitObstacle /\ [][NextObstacle]_vars

\* the call of calc_obstacle_cost has ended
CostEnded == traj # <<>> /\ pc \in {"returned", "error"}

\* C9: with an obstacle set of zero points calc_obstacle_cost raises nothing
\* and contributes 0: it never reports a collision.
C9_NoObstaclesCostZero ==
    (CostEnded /\ ob = <<>>) => pc = "returned" /\ ret.val = 0

\* squared Euclidean distance from trajectory sample j to obstacle point i
Dist2(i, j) ==
    (traj[j][1] - ob[i][1]) * (traj[j][1] - ob[i][1])
        + (traj[j][2] - ob[i][2]) * (traj[j][2] - ob[i][2])

\* some sample lies within robot_radius of some obstacle point (boundary
\* included)
Collides ==
    \E i \in DOMAIN ob, j \in DOMAIN traj :
        Dist2(i, j) <= cfg.robot_radius * cfg.robot_radius

\* C10: for a non-empty obstacle set the cost is +infinity exactly when
\* some sample is at distance <= robot_radius from some obstacle point, and
\* otherwise it is 1 / (the least sample-to-obstacle distance), finite and
\* positive.
C10_ObstacleCost ==
    (CostEnded /\ ob # <<>>) =>
        /\ pc = "returned"
        /\ (ret.val = Inf) <=> Collides
        /\ ~Collides =>
               \E i \in DOMAIN ob, j \in DOMAIN traj :
                   /\ \A i2 \in DOMAIN ob, j2 \in DOMAIN traj :
                          Dist2(i, j) <= Dist2(i2, j2)
                   /\ ret.val = (CostScale * DistScale)
                                    \div hypot(traj[j][1] - ob[i][1],
                                               traj[j][2] - ob[i][2])
                   /\ 0 < ret.val
                   /\ ret.val < Inf

\* C10's case: the nearest sample is at exactly robot_radius > 0 from an
\* obstacle point, and the cost returned is +infinity
C10_Witness ==
    /\ CostEnded
    /\ ob # <<>>
    /\ cfg.robot_radius > 0
    /\ \E i \in DOMAIN ob, j \in DOMAIN traj :
           Dist2(i, j) = cfg.robot_radius * cfg.robot_radius
    /\ \A i \in DOMAIN ob, j \in DOMAIN traj :
           Dist2(i, j) >= cfg.robot_radius * cfg.robot_radius
    /\ ret.val = Inf

----------------------------------------------------------------------------
(* One call of predict_trajectory, on every input *)

\* the Configs a call is given: a time tick of 1 or 2, a horizon of 0 to
\* MaxPredictTime
PredictConfigSet ==
    { [Config EXCEPT !.dt = d, !.predict_time = p] :
          d \in {1, 2}, p \in 0..MaxPredictTime }

\* the commands: agent n, linear velocity v, yaw rate y
CommandSet == { <<n, v, y>> : n \in 1..NumAgents, v \in {0, 1}, y \in {0, 2} }

InitPredict ==
    /\ prog \in {"dwa_flocking", "dwa_3d"}
    /\ cfg \in PredictConfigSet
    /\ x \in IF prog = "dwa_flocking" THEN StateSet ELSE VectorSet
    /\ cmd \in IF prog = "dwa_flocking"
               THEN CommandSet
               ELSE { c \in CommandSet : c[1] = 1 }
    /\ goal = <<0, 0>>
    /\ ob = <<>>
    /\ dw = <<>>
    /\ ret = NoRet
    /\ pc = "start"
    /\ goalNo = 1
    /\ steps = 0
    /\ traj = <<>>

\* the call predict_trajectory(x_init, n, v, y, config) of dwa_flocking.py
Predict ==
    /\ pc = "start"
    /\ prog = "dwa_flocking"
    /\ cmd # <<>>
    /\ traj' = predict_trajectory(x, cmd[1], cmd[2], cmd[3], cfg)
    /\ ret' = NoRet
    /\ pc' = "returned"
    /\ UNCHANGED <<cmd, prog, cfg, x, goal, ob, dw, goalNo, steps>>

\* the call predict_trajectory(x_init, v, y, config) of dwa_3d.py
Predict3d ==
    /\ pc = "start"
    /\ prog = "dwa_3d"
    /\ cmd # <<>>
    /\ LET p == predict_trajectory3d(x, cmd[2], cmd[3], cfg)
       IN  /\ traj' = p.trajectory
           /\ ret' = [err |-> p.err]
           /\ pc' = IF p.err = "none" THEN "returned" ELSE "error"
    /\ UNCHANGED <<cmd, prog, cfg, x, goal, ob, dw, goalNo, steps>>

NextPredict == Predict \/ Predict3d

SpecPredict == InitPredict /\ [][NextPredict]_vars

\* ceil(a / b) for a >= 0, b > 0
CeilDiv(a, b) == (a + b - 1) \div b

\* C13: for every initial state, command and Config with dt > 0 and
\* predict_time >= 0, predict_trajectory returns ceil(predict_time / dt) + 1
\* samples (blocks of rows in dwa_flocking.py), the first the initial state
\* unmodified and each later one the previous sample advanced by one motion
\* tick with the same command.
C13_SampleCount ==
    (cmd # <<>> /\ pc # "start") =>
        /\ pc = "returned"
        /\ Len(traj) = CeilDiv(cfg.predict_time, cfg.dt) + 1
        /\ traj[1] = x
        /\ \A k \in 2..Len(traj) :
               traj[k] = IF prog = "dwa_flocking"
                         THEN motion(traj[k - 1], cmd[1], <<cmd[2], cmd[3]>>,
                                     cfg.dt)
                         ELSE motion3d(traj[k - 1], <<cmd[2], cmd[3]>>,
                                       cfg.dt).x

----------------------------------------------------------------------------
(* main of dwa_flocking.py *)

\* the rows main builds, on the model's grid; a run holds the first NumAgents
MainRows ==
    << <<1, -1, 0, 0, 0>>, <<1, -3, 0, 0, 0>>, <<1, -5, 0, 0, 0>>,
       <<3, -1, 0, 0, 0>>, <<3, -3, 0, 0, 0>>, <<3, -5, 0, 0, 0>> >>

\* where goal1 lies on the model's grid
MainGoalSet == { <<3, -1>>, <<4, -2>>, <<3, -4>>, <<1, 1>>, <<-1, -2>> }

RECURSIVE MoveAll(_, _, _, _)
\* for n in range(6): x = motion(x, n, u[n], config.dt), from agent n on
MoveAll(xs, u, n, dt) ==
    IF n > Len(xs) THEN xs ELSE MoveAll(motion(xs, n, u[n], dt), u, n + 1, dt)

\* the test of the goal check: dist_to_goal <= config.robot_radius, agent n
AtGoal(xs, n, g, c) ==
    hypot(xs[n][1] - g[1], xs[n][2] - g[2]) <= c.robot_radius * DistScale

Init ==
    /\ cmd = <<>>
    /\ prog = "dwa_flocking"
    /\ cfg = Config
    /\ x = SubSeq(MainRows, 1, NumAgents)
    /\ goal \in MainGoalSet
    /\ ob \in ObSet
    /\ dw = <<>>
    /\ ret = NoRet
    /\ pc = "goal1"
    /\ goalNo = 1
    /\ steps = 0
    /\ traj = <<SubSeq(MainRows, 1, NumAgents)>>

\* one pass of the first while loop of main: dwa_control, the motion of
\* every agent, the state stored in trajectory, the goal check.  The break of the goal check leaves the for
\* loop over the agents; nothing leaves the while loop, so the loops of
\* goal2 and goal3 are never entered.
MainStep ==
    /\ pc = "goal1"
    /\ prog = "dwa_flocking"
    /\ steps < MaxSteps
    /\ LET r == dwa_control(x, cfg, goal, ob)
       IN  /\ ret' = r
           /\ dw' = calc_dynamic_window(x, cfg)
           /\ IF r.err # "none"
              THEN /\ pc' = "error"
                   /\ x' = x
                   /\ traj' = traj
              ELSE /\ pc' = "goal1"
                   /\ x' = MoveAll(x, r.best_u, 1, cfg.dt)
                   /\ traj' = Append(traj, x')
    /\ steps' = steps + 1
    /\ UNCHANGED <<cmd, prog, cfg, goal, ob, goalNo>>

Next == MainStep

Spec == Init /\ [][Next]_vars

\* C7: whenever after a control step some agent is within robot_radius of
\* the active goal, the run has gone on to the next goal (no agent is at the
\* goal that is still active).
C7_GoalAdvances ==
    (prog = "dwa_flocking" /\ pc = "goal1" /\ steps > 0) =>
        ~(goalNo = 1 /\ \E n \in Agents(x) : AtGoal(x, n, goal, cfg))

\* C12: in every control step of a run the command applied to each agent
\* lies in the static bounds of Config: min_speed <= v <= max_speed and
\* -max_yaw_rate <= yaw rate <= max_yaw_rate, the default command and the
\* anti-stall override included.
C12_CommandInStaticBounds ==
    (prog = "dwa_flocking" /\ steps > 0 /\ pc = "goal1") =>
        \A n \in Agents(x) : WithinStatic(ret.best_u[n])

\* C12's case: a step of the run committed the anti-stall override for one
\* agent (the candidate accepted last had another yaw rate) and a candidate
\* at the top of the velocity grid, max_speed - v_resolution, for another
C12_Witness ==
    /\ prog = "dwa_flocking" /\ steps > 0 /\ pc = "goal1"
    /\ \E n \in Agents(x) :
           /\ ret.sel[n] # <<>>
           /\ ret.sel[n][2] # -cfg.max_delta_yaw_rate
           /\ ret.best_u[n] = <<ret.sel[n][1], -cfg.max_delta_yaw_rate>>
    /\ \E n \in Agents(x) :
           /\ ret.sel[n] # <<>>
           /\ ret.best_u[n][1] = cfg.max_speed - cfg.v_resolution

\* C14: in every control step of the run the command of each agent lies
\* inside the dynamic window computed in that step from the state before the
\* step, and so changes the linear velocity by at most max_accel * dt and the
\* yaw rate by at most max_delta_yaw_rate * dt, the anti-stall override
\* included.
C14_CommandInsideWindow ==
    (prog = "dwa_flocking" /\ steps > 0 /\ pc = "goal1") =>
        LET before == traj[Len(traj) - 1]
        IN  \A n \in Agents(x) :
                /\ InWindow(ret.best_u[n], dw[n])
                /\ WithinReach(ret.best_u[n], before[n][4], before[n][5])

----------------------------------------------------------------------------
(* main of dwa_3d.py *)

\* where goal1 = (gx, gy), the parameters of main, lies on the grid
Main3dGoalSet == { <<6, -5>>, <<3, -5>>, <<2, -4>>, <<4, -3>>, <<2, -5>> }

\* goal1, goal2, goal3 of main
Goals3d(g1) == << g1, <<20, -15>>, <<2, -15>> >>

Init3d ==
    /\ cmd = <<>>
    /\ prog = "dwa_3d"
    /\ cfg \in ConfigSet
    /\ x = <<2, -5, 0, 0, 0>>
    /\ goal \in Main3dGoalSet
    /\ ob \in ObSet
    /\ dw = <<>>
    /\ ret = NoRet
    /\ pc = "loop"
    /\ goalNo = 1
    /\ steps = 0
    /\ traj = <<>>

\* one pass of the while loop of the active goal: dwa_control, motion, the
\* goal check with its break
MainStep3d ==
    /\ pc = "loop"
    /\ prog = "dwa_3d"
    /\ steps < MaxSteps
    /\ LET g == Goals3d(goal)[goalNo]
           w == calc_dynamic_window3d(x, cfg)
           r == calc_control_and_trajectory3d(x, w.dw, cfg, g, ob)
           m == motion3d(x, r.best_u, cfg.dt)
       IN  IF w.err # "none"
           THEN /\ pc' = "error"
                /\ ret' = [err |-> w.err]
                /\ UNCHANGED <<x, dw, goalNo>>
           ELSE IF r.err # "none"
           THEN /\ pc' = "error"
                /\ ret' = r
                /\ dw' = w.dw
                /\ UNCHANGED <<x, goalNo>>
           ELSE IF m.err # "none"
           THEN /\ pc' = "error"
                /\ ret' = [err |-> m.err]
                /\ dw' = w.dw
                /\ UNCHANGED <<x, goalNo>>
           ELSE /\ ret' = r
                /\ dw' = w.dw
                /\ x' = m.x
                /\ IF hypot(m.x[1] - g[1], m.x[2] - g[2])
                          <= cfg.robot_radius * DistScale
                   THEN /\ goalNo' = goalNo + 1
                        /\ pc' = IF goalNo = 3 THEN "done" ELSE "loop"
                   ELSE /\ goalNo' = goalNo
                        /\ pc' = "loop"
    /\ steps' = steps + 1
    /\ UNCHANGED <<cmd, prog, cfg, goal, ob, traj>>

Next3d == MainStep3d

Spec3d == Init3d /\ [][Next3d]_vars

\* C8: from main's start, with Config(), a single goal and no obstacle, the
\* control loop raises nothing, and when it has left the loop of the goal
\* the robot is within robot_radius of it.
C8_RunReachesGoal ==
    (prog = "dwa_3d" /\ cfg = Config /\ ob = <<>>) =>
        /\ pc # "error"
        /\ goalNo > 1 =>
               hypot(x[1] - goal[1], x[2] - goal[2])
                   <= cfg.robot_radius * DistScale

====
